---- MODULE Spec2Model ----
(***************************************************************************)
(* Model of controlador_passadeira.py: the DigitalTwinController client    *)
(* (one HTTP GET per low-level call) and the script's entry point.         *)
(*                                                                         *)
(* Text is modelled as a sequence of one-character strings, so that        *)
(* strip(), startswith(), split(":") and int() are computed as Python      *)
(* computes them.  A Python value is a record [t, b, s]: None, a bool or a *)
(* str.  The outcome of one requests.get is chosen by the environment: a   *)
(* response (status, body) or an exception of the requests library.        *)
(***************************************************************************)
EXTENDS Integers, Sequences, FiniteSets, TLC

VARIABLES pc, controller_instance, call, handler, iter, shutdown

vars == <<pc, controller_instance, call, handler, iter, shutdown>>

(***************************************************************************)
(* Bounds of the model.                                                    *)
(***************************************************************************)
\* longest text the environment puts after the "VALUE:" prefix
MaxSuffix == 2
\* iterations of the endless demo loop that are explored
MaxIter == 3

(***************************************************************************)
(* Configuration.                                                          *)
(***************************************************************************)
UNITY_HOST == "localhost"
UNITY_PORT == 8088
DEFAULT_TIMEOUT == 5

\* self.base_url and self.default_timeout of a constructed client
Instance(host, port) ==
    [base_url |-> "http://" \o host \o ":" \o ToString(port),
     default_timeout |-> DEFAULT_TIMEOUT]
\* controller_instance = None
NoInstance == [base_url |-> "", default_timeout |-> 0]

(***************************************************************************)
(* Python values.                                                          *)
(***************************************************************************)
PyNone == [t |-> "None", b |-> FALSE, s |-> <<>>]
PyBool(x) == [t |-> "bool", b |-> x, s |-> <<>>]
PyStr(x) == [t |-> "str", b |-> FALSE, s |-> x]
PyTrue == PyBool(TRUE)
PyFalse == PyBool(FALSE)

\* truth value testing: None and "" are false
Truthy(v) ==
    CASE v.t = "None" -> FALSE
      [] v.t = "bool" -> v.b
      [] OTHER -> v.s # <<>>

\* `not x`
PyNot(v) == PyBool(~Truthy(v))

\* `a and b`: a when a is false, otherwise b
PyAnd(a, b) == IF Truthy(a) THEN b ELSE a

(***************************************************************************)
(* str methods and int().                                                  *)
(***************************************************************************)
Whitespace == {" ", "\n"}
Digits == {"0", "1", "2", "3", "4", "5", "6", "7", "8", "9"}
DigitVal(c) ==
    CASE c = "0" -> 0 [] c = "1" -> 1 [] c = "2" -> 2 [] c = "3" -> 3
      [] c = "4" -> 4 [] c = "5" -> 5 [] c = "6" -> 6 [] c = "7" -> 7
      [] c = "8" -> 8 [] OTHER -> 9

RECURSIVE LStrip(_)
LStrip(s) ==
    IF s # <<>> /\ Head(s) \in Whitespace THEN LStrip(Tail(s)) ELSE s

RECURSIVE RStrip(_)
RStrip(s) ==
    IF s # <<>> /\ s[Len(s)] \in Whitespace
    THEN RStrip(SubSeq(s, 1, Len(s) - 1))
    ELSE s

\* str.strip()
Strip(s) == RStrip(LStrip(s))

\* str.startswith(p)
StartsWith(s, p) == Len(s) >= Len(p) /\ SubSeq(s, 1, Len(p)) = p

\* str.split(sep) for a one-character separator: the list of fields
RECURSIVE Split(_, _)
Split(s, sep) ==
    IF \E i \in 1..Len(s) : s[i] = sep
    THEN LET i == CHOOSE k \in 1..Len(s) :
                     s[k] = sep /\ \A j \in 1..(k - 1) : s[j] # sep
         IN  <<SubSeq(s, 1, i - 1)>> \o Split(SubSeq(s, i + 1, Len(s)), sep)
    ELSE <<s>>

RECURSIVE DigitsValue(_, _)
DigitsValue(d, acc) ==
    IF d = <<>> THEN acc
    ELSE IF Head(d) = "_" THEN DigitsValue(Tail(d), acc)
    ELSE DigitsValue(Tail(d), 10 * acc + DigitVal(Head(d)))

\* int(s), base 10: surrounding whitespace is ignored, one optional sign,
\* then digits, which single underscores may separate.  ok = FALSE stands
\* for ValueError.
PyInt(s) ==
    LET t == Strip(s)
        signed == t # <<>> /\ Head(t) \in {"+", "-"}
        d == IF signed THEN Tail(t) ELSE t
        wellFormed ==
            /\ d # <<>>
            /\ \A i \in 1..Len(d) : d[i] \in Digits \cup {"_"}
            /\ d[1] \in Digits
            /\ d[Len(d)] \in Digits
            /\ \A i \in 1..(Len(d) - 1) : ~(d[i] = "_" /\ d[i + 1] = "_")
        mag == DigitsValue(d, 0)
    IN  IF wellFormed
        THEN [ok |-> TRUE,
              val |-> IF signed /\ Head(t) = "-" THEN 0 - mag ELSE mag]
        ELSE [ok |-> FALSE, val |-> 0]

(***************************************************************************)
(* Exceptions.  A raised exception is [cls, msg_url]: its class and the    *)
(* address its message names ("" when the library wrote the message).      *)
(* Bases(cls) is the class with all its base classes, which is what an     *)
(* except clause matches against.  requests.exceptions.ConnectionError     *)
(* derives from RequestException (an OSError); the built-in                *)
(* ConnectionError is another class.  ConnectTimeout derives from both     *)
(* requests' ConnectionError and Timeout.                                  *)
(***************************************************************************)
NoExc == [cls |-> "none", msg_url |-> ""]
Exc(cls, url) == [cls |-> cls, msg_url |-> url]

Bases(cls) ==
    CASE cls = "requests.ReadTimeout" ->
           {"requests.ReadTimeout", "requests.Timeout",
            "requests.RequestException", "OSError", "Exception",
            "BaseException"}
      [] cls = "requests.ConnectTimeout" ->
           {"requests.ConnectTimeout", "requests.ConnectionError",
            "requests.Timeout", "requests.RequestException", "OSError",
            "Exception", "BaseException"}
      [] cls = "requests.ConnectionError" ->
           {"requests.ConnectionError", "requests.RequestException",
            "OSError", "Exception", "BaseException"}
      [] cls = "requests.HTTPError" ->
           {"requests.HTTPError", "requests.RequestException", "OSError",
            "Exception", "BaseException"}
      [] cls = "requests.TooManyRedirects" ->
           {"requests.TooManyRedirects", "requests.RequestException",
            "OSError", "Exception", "BaseException"}
      [] cls = "ConnectionError" ->
           {"ConnectionError", "OSError", "Exception", "BaseException"}
      [] cls = "KeyboardInterrupt" ->
           {"KeyboardInterrupt", "BaseException"}
      [] OTHER -> {}

\* `except base:` catches an exception of class cls
Catches(base, cls) == base \in Bases(cls)

(***************************************************************************)
(* What the environment answers to one GET.                                *)
(***************************************************************************)
Response(status, body) ==
    [kind |-> "response", status |-> status, body |-> body, cls |-> "none"]
Failure(cls) ==
    [kind |-> "exception", status |-> 0, body |-> <<>>, cls |-> cls]

PONG == <<"P", "O", "N", "G">>
OK_PREFIX == <<"O", "K", ":">>
VALUE_PREFIX == <<"V", "A", "L", "U", "E", ":">>

CommonBodies ==
    { PONG,
      <<"P", "I", "N", "G">>,
      <<" ", "P", "O", "N", "G", "\n">>,
      <<"P", "O", "N", "G", "!">>,
      <<>>,
      <<" ">>,
      OK_PREFIX,
      <<"O", "K">>,
      <<"O", "K", ":", "Q", "1", "_", "7", "=", "1">>,
      <<" ", "O", "K", ":", "a", "\n">>,
      <<"x", "O", "K", ":">>,
      <<"E", "R", "R", "O", "R", ":", "u", "n", "k", "n", "o", "w", "n", " ", "a", "c", "t", "u", "a", "t", "o", "r">>,
      <<"T", "I", "M", "E", "O", "U", "T">>,
      <<"V", "A", "L", "U", "E", ":", "1">>,
      <<"V", "A", "L", "U", "E", ":", "0">> }

SuffixChars == {"0", "1", "2", ":", " ", "-", "+", "_", "x"}

RECURSIVE Texts(_)
Texts(n) ==
    IF n = 0 THEN {<<>>}
    ELSE LET shorter == Texts(n - 1)
         IN  shorter \cup {Append(t, c) : t \in shorter, c \in SuffixChars}

\* bodies a read endpoint is tried with: every text of at most MaxSuffix
\* characters after the prefix, with and without a trailing newline
ReadBodies ==
    CommonBodies
      \cup {VALUE_PREFIX \o t : t \in Texts(MaxSuffix)}
      \cup {VALUE_PREFIX \o t \o <<"\n">> : t \in Texts(1)}

OkStatuses == {200}
ErrorStatuses == {404, 500}
ErrorBodies == {<<>>, PONG, <<"O", "K", ":", "Q", "1", "_", "7", "=", "1">>, <<"V", "A", "L", "U", "E", ":", "1">>}
RequestsExceptions ==
    {"requests.ReadTimeout", "requests.ConnectTimeout",
     "requests.ConnectionError", "requests.TooManyRedirects"}

OutcomesWith(bodies) ==
    {Response(st, b) : st \in OkStatuses, b \in bodies}
      \cup {Response(st, b) : st \in ErrorStatuses, b \in ErrorBodies}
      \cup {Failure(c) : c \in RequestsExceptions}

Outcomes == OutcomesWith(CommonBodies)
ReadOutcomes == OutcomesWith(ReadBodies)

(***************************************************************************)
(* The methods of DigitalTwinController.  Each takes the outcome of every  *)
(* GET it may issue and yields [sent, ret, exc, sub]: the GETs issued in   *)
(* order, the value returned (None when it raised), the exception raised   *)
(* (NoExc when it returned) and the values its _set_actuator calls         *)
(* returned.                                                               *)
(***************************************************************************)
Result(sent, ret, exc, sub) ==
    [sent |-> sent, ret |-> ret, exc |-> exc, sub |-> sub]
Returned(r) == r.exc = NoExc

\* a dict of query parameters is a set of <<key, value>>; None is {}
Get(url, params, timeout) ==
    [url |-> url, params |-> params, timeout |-> timeout]

\* what requests.get followed by raise_for_status raises ("none": nothing)
RaisedBy(o) ==
    IF o.kind = "exception" THEN o.cls
    ELSE IF o.status >= 400 /\ o.status < 600 THEN "requests.HTTPError"
    ELSE "none"

\* _request with the ConnectionError clause tried before the Timeout clause
_request_connection_first(self, endpoint, params, o) ==
    LET url == self.base_url \o endpoint
        sent == <<Get(url, params, self.default_timeout)>>
        raised == RaisedBy(o)
    IN  IF raised = "none"
        THEN Result(sent, PyStr(Strip(o.body)), NoExc, <<>>)
        ELSE IF Catches("requests.ConnectionError", raised)
        THEN Result(sent, PyNone, Exc(raised, ""), <<>>)
        ELSE IF Catches("requests.RequestException", raised)
        THEN Result(sent, PyNone, NoExc, <<>>)
        ELSE Result(sent, PyNone, Exc(raised, ""), <<>>)

_request(self, endpoint, params, o) ==
    LET url == self.base_url \o endpoint
        sent == <<Get(url, params, self.default_timeout)>>
        raised == RaisedBy(o)
    IN  IF raised = "none"
        THEN Result(sent, PyStr(Strip(o.body)), NoExc, <<>>)
        ELSE IF Catches("requests.Timeout", raised)
        THEN Result(sent, PyNone, NoExc, <<>>)
        ELSE IF Catches("requests.ConnectionError", raised)
        THEN Result(sent, PyNone, Exc(raised, ""), <<>>)
        ELSE IF Catches("requests.HTTPError", raised)
        THEN Result(sent, PyNone, NoExc, <<>>)
        ELSE IF Catches("requests.RequestException", raised)
        THEN Result(sent, PyNone, NoExc, <<>>)
        ELSE Result(sent, PyNone, Exc(raised, ""), <<>>)

\* _set_actuator that asks once more when the first answer is no success
_set_actuator_retry(self, name, value, o) ==
    LET val_param == IF value THEN "1" ELSE "0"
        params == {<<"name", name>>, <<"value", val_param>>}
        r == _request(self, "/set_actuator", params, o)
    IN  IF ~Returned(r) THEN r
        ELSE IF Truthy(r.ret) /\ StartsWith(r.ret.s, OK_PREFIX)
        THEN Result(r.sent, PyTrue, NoExc, <<>>)
        ELSE Result(r.sent \o r.sent, PyFalse, NoExc, <<>>)

\* _set_actuator that looks for "OK" without the colon
_set_actuator_ok_only(self, name, value, o) ==
    LET val_param == IF value THEN "1" ELSE "0"
        params == {<<"name", name>>, <<"value", val_param>>}
        r == _request(self, "/set_actuator", params, o)
    IN  IF ~Returned(r) THEN r
        ELSE IF Truthy(r.ret) /\ StartsWith(r.ret.s, <<"O", "K">>)
        THEN Result(r.sent, PyTrue, NoExc, <<>>)
        ELSE Result(r.sent, PyFalse, NoExc, <<>>)

_set_actuator(self, name, value, o) ==
    LET val_param == IF value THEN "1" ELSE "0"
        params == {<<"name", name>>, <<"value", val_param>>}
        r == _request(self, "/set_actuator", params, o)
    IN  IF ~Returned(r) THEN r
        ELSE IF Truthy(r.ret) /\ StartsWith(r.ret.s, OK_PREFIX)
        THEN Result(r.sent, PyTrue, NoExc, <<>>)
        ELSE Result(r.sent, PyFalse, NoExc, <<>>)

\* _get_bit that takes every non-zero integer for a set bit
_get_bit_nonzero(self, endpoint_path, name, o) ==
    LET params == {<<"name", name>>}
        r == _request(self, endpoint_path, params, o)
    IN  IF ~Returned(r) THEN r
        ELSE IF Truthy(r.ret) /\ StartsWith(r.ret.s, VALUE_PREFIX)
        THEN LET fields == Split(r.ret.s, ":")
             IN  IF Len(fields) < 2
                 THEN Result(r.sent, PyNone, NoExc, <<>>)
                 ELSE LET val == PyInt(fields[2])
                      IN  IF val.ok
                          THEN Result(r.sent, PyBool(val.val # 0), NoExc, <<>>)
                          ELSE Result(r.sent, PyNone, NoExc, <<>>)
        ELSE Result(r.sent, PyNone, NoExc, <<>>)

_get_bit(self, endpoint_path, name, o) ==
    LET params == {<<"name", name>>}
        r == _request(self, endpoint_path, params, o)
    IN  IF ~Returned(r) THEN r
        ELSE IF Truthy(r.ret) /\ StartsWith(r.ret.s, VALUE_PREFIX)
        THEN LET fields == Split(r.ret.s, ":")
             IN  IF Len(fields) < 2
                 THEN Result(r.sent, PyNone, NoExc, <<>>)
                 ELSE LET val == PyInt(fields[2])
                      IN  IF val.ok
                          THEN Result(r.sent, PyBool(val.val = 1), NoExc, <<>>)
                          ELSE Result(r.sent, PyNone, NoExc, <<>>)
        ELSE Result(r.sent, PyNone, NoExc, <<>>)

\* _ping that accepts any body beginning with PONG
_ping_prefix(self, o) ==
    LET r == _request(self, "/ping", {}, o)
    IN  IF ~Returned(r) THEN r
        ELSE Result(r.sent,
                    PyBool(Truthy(r.ret) /\ StartsWith(r.ret.s, PONG)),
                    NoExc, <<>>)

_ping(self, o) ==
    LET r == _request(self, "/ping", {}, o)
    IN  IF ~Returned(r) THEN r
        ELSE Result(r.sent, PyBool(r.ret = PyStr(PONG)), NoExc, <<>>)

\* __init__: ret is the constructed instance, NoInstance when it raised
__init__(host, port, o) ==
    LET self == Instance(host, port)
        r == _ping(self, o)
    IN  IF ~Returned(r) THEN Result(r.sent, NoInstance, r.exc, <<>>)
        ELSE IF ~Truthy(r.ret)
        THEN Result(r.sent, NoInstance,
                    Exc("ConnectionError", self.base_url), <<>>)
        ELSE Result(r.sent, self, NoExc, <<>>)

move_punch_down(self, o) == _set_actuator(self, "Q1_4", TRUE, o)

move_punch_up(self, o) == _set_actuator(self, "Q1_5", TRUE, o)

\* stop_punch that gives up after a failed first call
stop_punch_short_circuit(self, o1, o2) ==
    LET res1 == _set_actuator(self, "Q1_4", FALSE, o1)
        res2 == _set_actuator(self, "Q1_5", FALSE, o2)
    IN  IF ~Returned(res1) THEN res1
        ELSE IF ~Truthy(res1.ret)
        THEN Result(res1.sent, res1.ret, NoExc, <<res1.ret>>)
        ELSE IF ~Returned(res2)
        THEN Result(res1.sent \o res2.sent, PyNone, res2.exc, <<res1.ret>>)
        ELSE Result(res1.sent \o res2.sent, PyAnd(res1.ret, res2.ret),
                    NoExc, <<res1.ret, res2.ret>>)

stop_punch(self, o1, o2) ==
    LET res1 == _set_actuator(self, "Q1_4", FALSE, o1)
        res2 == _set_actuator(self, "Q1_5", FALSE, o2)
    IN  IF ~Returned(res1) THEN res1
        ELSE IF ~Returned(res2)
        THEN Result(res1.sent \o res2.sent, PyNone, res2.exc, <<res1.ret>>)
        ELSE Result(res1.sent \o res2.sent, PyAnd(res1.ret, res2.ret),
                    NoExc, <<res1.ret, res2.ret>>)

move_conveyor_left(self, o) == _set_actuator(self, "Q1_7", TRUE, o)

move_conveyor_right(self, o) == _set_actuator(self, "Q1_6", TRUE, o)

\* stop_conveyor that returns the second result alone
stop_conveyor_second_only(self, o1, o2) ==
    LET res1 == _set_actuator(self, "Q1_6", FALSE, o1)
        res2 == _set_actuator(self, "Q1_7", FALSE, o2)
    IN  IF ~Returned(res1) THEN res1
        ELSE IF ~Returned(res2)
        THEN Result(res1.sent \o res2.sent, PyNone, res2.exc, <<res1.ret>>)
        ELSE Result(res1.sent \o res2.sent, res2.ret,
                    NoExc, <<res1.ret, res2.ret>>)

stop_conveyor(self, o1, o2) ==
    LET res1 == _set_actuator(self, "Q1_6", FALSE, o1)
        res2 == _set_actuator(self, "Q1_7", FALSE, o2)
    IN  IF ~Returned(res1) THEN res1
        ELSE IF ~Returned(res2)
        THEN Result(res1.sent \o res2.sent, PyNone, res2.exc, <<res1.ret>>)
        ELSE Result(res1.sent \o res2.sent, PyAnd(res1.ret, res2.ret),
                    NoExc, <<res1.ret, res2.ret>>)

is_punch_down_sensor_active(self, o) ==
    _get_bit(self, "/get_sensor", "I0_1", o)

is_punch_up_sensor_active(self, o) ==
    _get_bit(self, "/get_sensor", "I0_2", o)

\* `not self._get_bit(...)`
Negated(r) ==
    IF ~Returned(r) THEN r ELSE Result(r.sent, PyNot(r.ret), NoExc, <<>>)

is_conveyor_right_limit_active(self, o) ==
    Negated(_get_bit(self, "/get_sensor", "I0_3", o))

is_conveyor_left_limit_active(self, o) ==
    Negated(_get_bit(self, "/get_sensor", "I0_4", o))

(***************************************************************************)
(* State.                                                                  *)
(*   pc                   where the script is                              *)
(*   controller_instance  the client, NoInstance while there is none       *)
(*   call                 the last call made: what it was given, the       *)
(*                        outcomes of its GETs and what it did             *)
(*   handler              the except clause of the entry point that ran    *)
(*   iter                 iterations of the demo loop so far               *)
(*   shutdown             the GETs issued by the finally block             *)
(***************************************************************************)
Call(op, endpoint, name, value, outcomes, r) ==
    [op |-> op, endpoint |-> endpoint, name |-> name, value |-> value,
     outcomes |-> outcomes, sent |-> r.sent, ret |-> r.ret, exc |-> r.exc,
     sub |-> r.sub]
NoCall == Call("none", "", "", PyNone, <<>>, Result(<<>>, PyNone, NoExc, <<>>))

Init ==
    /\ pc = "start"
    /\ controller_instance = NoInstance
    /\ call = NoCall
    /\ handler = "none"
    /\ iter = 0
    /\ shutdown = <<>>

(***************************************************************************)
(* The client driven call by call: a client is constructed, then any       *)
(* method is called with any argument, each GET getting any outcome.       *)
(***************************************************************************)
Configs == {<<UNITY_HOST, UNITY_PORT>>, <<"twin", 9000>>}
Endpoints == {"/ping", "/get_sensor", "/set_actuator"}
ReadPaths == {"/get_sensor", "/get_actuator"}
ActuatorNames == {"Q1_4", "Q1_5", "Q1_6", "Q1_7", "Q9_9"}
SensorNames == {"I0_1", "I0_2", "I0_3", "I0_4"}
ParamSets == {{}, {<<"name", "I0_1">>}}

Ready == pc = "ready" /\ controller_instance # NoInstance

\* a method call: its record replaces the last one
Does(c) ==
    /\ call' = c
    /\ pc' = "called"
    /\ UNCHANGED <<controller_instance, handler, iter, shutdown>>

New ==
    /\ pc = "start"
    /\ \E cfg \in Configs, o \in Outcomes :
         LET r == __init__(cfg[1], cfg[2], o)
         IN  /\ call' = Call("__init__", "", cfg[1], PyNone, <<o>>,
                             Result(r.sent, PyNone, r.exc, <<>>))
             /\ controller_instance' = r.ret
             /\ pc' = IF Returned(r) THEN "ready" ELSE "start"
    /\ UNCHANGED <<handler, iter, shutdown>>

Request ==
    /\ Ready
    /\ \E e \in Endpoints, ps \in ParamSets, o \in Outcomes :
         Does(Call("_request", e, "", PyNone, <<o>>,
                   _request(controller_instance, e, ps, o)))

SetActuator ==
    /\ Ready
    /\ \E n \in ActuatorNames, v \in BOOLEAN, o \in Outcomes :
         Does(Call("_set_actuator", "", n, PyBool(v), <<o>>,
                   _set_actuator(controller_instance, n, v, o)))

GetBit ==
    /\ Ready
    /\ \E e \in ReadPaths, n \in SensorNames, o \in ReadOutcomes :
         Does(Call("_get_bit", e, n, PyNone, <<o>>,
                   _get_bit(controller_instance, e, n, o)))

Ping ==
    /\ Ready
    /\ \E o \in Outcomes :
         Does(Call("_ping", "", "", PyNone, <<o>>,
                   _ping(controller_instance, o)))

MovePunchDown ==
    /\ Ready
    /\ \E o \in Outcomes :
         Does(Call("move_punch_down", "", "", PyNone, <<o>>,
                   move_punch_down(controller_instance, o)))

MovePunchUp ==
    /\ Ready
    /\ \E o \in Outcomes :
         Does(Call("move_punch_up", "", "", PyNone, <<o>>,
                   move_punch_up(controller_instance, o)))

StopPunch ==
    /\ Ready
    /\ \E o1 \in Outcomes, o2 \in Outcomes :
         Does(Call("stop_punch", "", "", PyNone, <<o1, o2>>,
                   stop_punch(controller_instance, o1, o2)))

MoveConveyorLeft ==
    /\ Ready
    /\ \E o \in Outcomes :
         Does(Call("move_conveyor_left", "", "", PyNone, <<o>>,
                   move_conveyor_left(controller_instance, o)))

MoveConveyorRight ==
    /\ Ready
    /\ \E o \in Outcomes :
         Does(Call("move_conveyor_right", "", "", PyNone, <<o>>,
                   move_conveyor_right(controller_instance, o)))

StopConveyor ==
    /\ Ready
    /\ \E o1 \in Outcomes, o2 \in Outcomes :
         Does(Call("stop_conveyor", "", "", PyNone, <<o1, o2>>,
                   stop_conveyor(controller_instance, o1, o2)))

IsPunchDownSensorActive ==
    /\ Ready
    /\ \E o \in ReadOutcomes :
         Does(Call("is_punch_down_sensor_active", "", "", PyNone, <<o>>,
                   is_punch_down_sensor_active(controller_instance, o)))

IsPunchUpSensorActive ==
    /\ Ready
    /\ \E o \in ReadOutcomes :
         Does(Call("is_punch_up_sensor_active", "", "", PyNone, <<o>>,
                   is_punch_up_sensor_active(controller_instance, o)))

IsConveyorRightLimitActive ==
    /\ Ready
    /\ \E o \in ReadOutcomes :
         Does(Call("is_conveyor_right_limit_active", "", "", PyNone, <<o>>,
                   is_conveyor_right_limit_active(controller_instance, o)))

IsConveyorLeftLimitActive ==
    /\ Ready
    /\ \E o \in ReadOutcomes :
         Does(Call("is_conveyor_left_limit_active", "", "", PyNone, <<o>>,
                   is_conveyor_left_limit_active(controller_instance, o)))

\* the caller is done with the result and goes on to its next call
NextCall ==
    /\ pc = "called"
    /\ pc' = "ready"
    /\ call' = NoCall
    /\ UNCHANGED <<controller_instance, handler, iter, shutdown>>

Next ==
    \/ New
    \/ Request
    \/ SetActuator
    \/ GetBit
    \/ Ping
    \/ MovePunchDown
    \/ MovePunchUp
    \/ StopPunch
    \/ MoveConveyorLeft
    \/ MoveConveyorRight
    \/ StopConveyor
    \/ IsPunchDownSensorActive
    \/ IsPunchUpSensorActive
    \/ IsConveyorRightLimitActive
    \/ IsConveyorLeftLimitActive
    \/ NextCall

Spec == Init /\ [][Next]_vars

(***************************************************************************)
(* The script: the entry point's try / except / finally around the         *)
(* constructor and run_example_sequence.                                   *)
(***************************************************************************)
\* the outcomes the script's own GETs are tried with
MainOutcomes ==
    { Response(200, PONG),
      Response(200, <<"O", "K", ":", "Q", "1", "_", "7", "=", "1">>),
      Response(200, <<"P", "I", "N", "G">>),
      Response(500, <<>>),
      Failure("requests.ReadTimeout"),
      Failure("requests.ConnectTimeout"),
      Failure("requests.ConnectionError"),
      Failure("requests.TooManyRedirects") }

\* the except clause of the entry point that takes an exception of class
\* cls: `except ConnectionError` is tried before `except Exception`; "none"
\* when neither catches it
HandlerFor(cls) ==
    IF Catches("ConnectionError", cls) THEN "critical"
    ELSE IF Catches("Exception", cls) THEN "unexpected"
    ELSE "none"

Main_Construct ==
    /\ pc = "start"
    /\ \E o \in MainOutcomes :
         LET r == __init__(UNITY_HOST, UNITY_PORT, o)
         IN  /\ call' = Call("__init__", "", UNITY_HOST, PyNone, <<o>>,
                             Result(r.sent, PyNone, r.exc, <<>>))
             /\ controller_instance' = r.ret
             /\ pc' = IF Returned(r) THEN "loop" ELSE "finally"
             /\ handler' = IF Returned(r) THEN handler
                           ELSE HandlerFor(r.exc.cls)
    /\ UNCHANGED <<iter, shutdown>>

\* one iteration of run_example_sequence: move_conveyor_left, then sleep
Main_LoopIteration ==
    /\ pc = "loop"
    /\ iter < MaxIter
    /\ \E o \in MainOutcomes :
         LET r == move_conveyor_left(controller_instance, o)
         IN  /\ call' = Call("move_conveyor_left", "", "", PyNone, <<o>>, r)
             /\ pc' = IF Returned(r) THEN "loop" ELSE "finally"
             /\ handler' = IF Returned(r) THEN handler
                           ELSE HandlerFor(r.exc.cls)
    /\ iter' = iter + 1
    /\ UNCHANGED <<controller_instance, shutdown>>

\* the operator interrupts the loop (Ctrl-C)
Main_KeyboardInterrupt ==
    /\ pc = "loop"
    /\ call' = Call("run_example_sequence", "", "", PyNone, <<>>,
                    Result(<<>>, PyNone, Exc("KeyboardInterrupt", ""), <<>>))
    /\ pc' = "finally"
    /\ handler' = HandlerFor("KeyboardInterrupt")
    /\ UNCHANGED <<controller_instance, iter, shutdown>>

\* finally: `if controller_instance:` is false
Main_FinallySkip ==
    /\ pc = "finally"
    /\ controller_instance = NoInstance
    /\ pc' = "exited"
    /\ UNCHANGED <<controller_instance, call, handler, iter, shutdown>>

\* finally: controller_instance.stop_punch()
Main_FinallyStopPunch ==
    /\ pc = "finally"
    /\ controller_instance # NoInstance
    /\ \E o1 \in MainOutcomes, o2 \in MainOutcomes :
         LET r == stop_punch(controller_instance, o1, o2)
         IN  /\ call' = Call("stop_punch", "", "", PyNone, <<o1, o2>>, r)
             /\ shutdown' = shutdown \o r.sent
             /\ pc' = IF Returned(r) THEN "finally_conveyor" ELSE "exited"
    /\ UNCHANGED <<controller_instance, handler, iter>>

\* finally: controller_instance.stop_conveyor()
Main_FinallyStopConveyor ==
    /\ pc = "finally_conveyor"
    /\ \E o1 \in MainOutcomes, o2 \in MainOutcomes :
         LET r == stop_conveyor(controller_instance, o1, o2)
         IN  /\ call' = Call("stop_conveyor", "", "", PyNone, <<o1, o2>>, r)
             /\ shutdown' = shutdown \o r.sent
             /\ pc' = "exited"
    /\ UNCHANGED <<controller_instance, handler, iter>>

MainNext ==
    \/ Main_Construct
    \/ Main_LoopIteration
    \/ Main_KeyboardInterrupt
    \/ Main_FinallySkip
    \/ Main_FinallyStopPunch
    \/ Main_FinallyStopConveyor

MainSpec == Init /\ [][MainNext]_vars

(***************************************************************************)
(* Properties.                                                             *)
(***************************************************************************)
\* the body the request primitive hands on for outcome o, as the wire gives
\* it: the trimmed text of a response without error status; Absent otherwise
Absent == <<"<absent>">>
Trimmed(o) ==
    IF o.kind = "response" /\ o.status \in OkStatuses
    THEN Strip(o.body) ELSE Absent
Unreachable(o) == o = Failure("requests.ConnectionError")
\* the text between the "VALUE:" prefix and the next colon (or the end)
ValueField(b) ==
    LET rest == SubSeq(b, Len(VALUE_PREFIX) + 1, Len(b))
        stops == {i \in 1..Len(rest) : rest[i] = ":"}
        n == IF stops = {} THEN Len(rest)
             ELSE (CHOOSE i \in stops : \A j \in stops : i <= j) - 1
    IN  SubSeq(rest, 1, n)
SetRequest(self, name, digit) ==
    Get(self.base_url \o "/set_actuator",
        {<<"name", name>>, <<"value", digit>>}, DEFAULT_TIMEOUT)
StopOps == {"stop_punch", "stop_conveyor"}
FirstOf(op) == IF op = "stop_punch" THEN "Q1_4" ELSE "Q1_6"
SecondOf(op) == IF op = "stop_punch" THEN "Q1_5" ELSE "Q1_7"

C2_ThreeValuedNegation ==
    (/\ call.op \in {"is_conveyor_right_limit_active",
                     "is_conveyor_left_limit_active"}
     /\ Returned(call)) =>
        LET sensor == IF call.op = "is_conveyor_right_limit_active"
                      THEN "I0_3" ELSE "I0_4"
            raw == _get_bit(controller_instance, "/get_sensor", sensor,
                            call.outcomes[1]).ret
        IN  /\ call.sent = <<Get(controller_instance.base_url \o "/get_sensor",
                                 {<<"name", sensor>>}, DEFAULT_TIMEOUT)>>
            /\ raw = PyTrue => call.ret = PyFalse
            /\ raw = PyFalse => call.ret = PyTrue
            /\ raw = PyNone => call.ret = PyNone

\* C3 as stated: once the script has exited after the client was
\* constructed, the finally block has sent value 0 to Q1_4, Q1_5, Q1_6 and
\* Q1_7.
C3_FullShutdown ==
    (pc = "exited" /\ controller_instance # NoInstance) =>
        \A n \in {"Q1_4", "Q1_5", "Q1_6", "Q1_7"} :
            \E i \in 1..Len(shutdown) :
                shutdown[i] = SetRequest(controller_instance, n, "0")

C5_UnreachableIsCritical ==
    /\ (pc = "finally" /\ call.op \in {"__init__", "move_conveyor_left"}
          /\ Unreachable(call.outcomes[1])) => handler = "critical"
    /\ (pc = "finally" /\ call.op = "move_conveyor_left") =>
          Unreachable(call.outcomes[1])

\* C6: _request issues one GET to base_url + endpoint and maps its outcome:
\* a response without error status returns the trimmed body; a timeout, an
\* error status or another transport error returns None and does not raise;
\* only the connection failure is raised.
C6_RequestOutcomes ==
    (call.op = "_request") =>
        LET o == call.outcomes[1]
        IN  /\ Len(call.sent) = 1
            /\ call.sent[1].url = controller_instance.base_url \o call.endpoint
            /\ (o.kind = "response" /\ o.status < 400) =>
                   /\ call.exc = NoExc
                   /\ call.ret = PyStr(Strip(o.body))
            /\ (\/ o.kind = "response" /\ o.status >= 400
                \/ o \in {Failure("requests.ReadTimeout"),
                          Failure("requests.ConnectTimeout"),
                          Failure("requests.TooManyRedirects")}) =>
                   /\ call.exc = NoExc
                   /\ call.ret = PyNone
            /\ Unreachable(o) <=> call.exc # NoExc
            /\ call.exc # NoExc => call.exc.cls = "requests.ConnectionError"

\* C6 witness: a connection timeout came back as None, not as an exception
C6_Witness ==
    /\ call.op = "_request"
    /\ call.outcomes[1] = Failure("requests.ConnectTimeout")
    /\ call.ret = PyNone
    /\ call.exc = NoExc

\* C7: stop_punch and stop_conveyor return the logical AND of what their
\* two _set_actuator calls returned.
C7_StopIsAnd ==
    (call.op \in StopOps /\ Returned(call)) =>
        /\ Len(call.sub) = 2
        /\ call.sub[1] = _set_actuator(controller_instance, FirstOf(call.op),
                                       FALSE, call.outcomes[1]).ret
        /\ call.sub[2] = _set_actuator(controller_instance, SecondOf(call.op),
                                       FALSE, call.outcomes[2]).ret
        /\ call.ret = PyBool(call.sub[1] = PyTrue /\ call.sub[2] = PyTrue)

\* C7 witness: stop_conveyor failed although its second call succeeded
C7_Witness ==
    /\ call.op = "stop_conveyor"
    /\ call.sub = <<PyFalse, PyTrue>>
    /\ call.ret = PyFalse

\* C8: one _set_actuator call issues exactly one GET, to /set_actuator,
\* with the name and the value as "1" for true and "0" for false, whatever
\* the outcome.
C8_OneSetRequest ==
    (call.op = "_set_actuator") =>
        call.sent = <<SetRequest(controller_instance, call.name,
                                 IF call.value = PyTrue THEN "1" ELSE "0")>>

\* C8 witness: a true value was sent once although the answer was an error
C8_Witness ==
    /\ call.op = "_set_actuator"
    /\ call.value = PyTrue
    /\ call.outcomes[1] = Response(500, <<>>)
    /\ Len(call.sent) = 1
    /\ call.sent[1].params = {<<"name", "Q1_7">>, <<"value", "1">>}

\* C9: _set_actuator returns true iff the trimmed body begins with OK:, and
\* false for every other outcome that does not raise.
C9_OkPrefix ==
    (call.op = "_set_actuator" /\ Returned(call)) =>
        /\ call.ret \in {PyTrue, PyFalse}
        /\ call.ret = PyTrue <=>
               StartsWith(Trimmed(call.outcomes[1]), OK_PREFIX)

\* C9 witness: the server answered ERROR:unknown actuator and the call
\* returned false
C9_Witness ==
    /\ call.op = "_set_actuator"
    /\ StartsWith(Trimmed(call.outcomes[1]), <<"E", "R", "R", "O", "R", ":">>)
    /\ call.ret = PyFalse

\* C10: a stop call that returns has sent both requests with value 0 in the
\* fixed order, also after a failed first one; the second request is
\* missing only when the first raised the connection failure, and then the
\* call returns nothing.
C10_BothSentInOrder ==
    (call.op \in StopOps) =>
        LET first == SetRequest(controller_instance, FirstOf(call.op), "0")
            second == SetRequest(controller_instance, SecondOf(call.op), "0")
        IN  /\ Returned(call) => call.sent = <<first, second>>
            /\ call.sent \in {<<first>>, <<first, second>>}
            /\ call.sent = <<first>> <=> Unreachable(call.outcomes[1])
            /\ call.sent = <<first>> => ~Returned(call)

\* C10 witness: the first request reported failure and the second was sent
C10_Witness ==
    /\ call.op = "stop_punch"
    /\ call.sub = <<PyFalse, PyTrue>>
    /\ Len(call.sent) = 2
    /\ Returned(call)

====
